---------------------------- MODULE Spec2Model ----------------------------
(***************************************************************************)
(* Model of generate-reqs (src/src/yml_to_requirements.py): the pipeline   *)
(* main() runs (resolve source, parse, conda list, filter, write) and the  *)
(* pure functions it is built from.                                        *)
(*                                                                         *)
(* Strings are sequences of one-character strings, so that split('='),     *)
(* the substring test `in`, splitlines() and '='.join() are computed the   *)
(* way Python computes them.  A YAML document is modelled after            *)
(* yaml.safe_load: a record with a `dependencies` list whose entries are   *)
(* plain strings or one-key mappings.                                      *)
(***************************************************************************)
EXTENDS Integers, Sequences, FiniteSets, TLC

(* ------------------------------ bounds --------------------------------- *)
MaxDeps == 3
MaxLines == 2
MaxRuns == 2

(* --------------------------- string helpers ---------------------------- *)
EQ == "="
NL == "\n"

Range(s) == {s[i] : i \in 1..Len(s)}

SeqsUpTo(S, n) == UNION {[1..k -> S] : k \in 0..n}

\* Python: sub in s
Contains(s, sub) ==
    \E i \in 1..(Len(s) - Len(sub) + 1) : SubSeq(s, i, i + Len(sub) - 1) = sub

\* index of the first occurrence of character c in s, 0 when there is none
IndexOf(s, c) ==
    IF \E i \in 1..Len(s) : s[i] = c
    THEN CHOOSE i \in 1..Len(s) : s[i] = c /\ \A j \in 1..(i - 1) : s[j] # c
    ELSE 0

\* Python: s.split(c)
RECURSIVE Split(_, _)
Split(s, c) ==
    LET i == IndexOf(s, c) IN
    IF i = 0 THEN <<s>>
    ELSE <<SubSeq(s, 1, i - 1)>> \o Split(SubSeq(s, i + 1, Len(s)), c)

\* Python: c.join(fields)
RECURSIVE Join(_, _)
Join(fields, c) ==
    IF Len(fields) = 0 THEN <<>>
    ELSE IF Len(fields) = 1 THEN fields[1]
    ELSE fields[1] \o <<c>> \o Join(Tail(fields), c)

\* Python: s.splitlines() for text whose only line boundary is "\n"
RECURSIVE Splitlines(_)
Splitlines(s) ==
    LET i == IndexOf(s, NL) IN
    IF Len(s) = 0 THEN <<>>
    ELSE IF i = 0 THEN <<s>>
    ELSE <<SubSeq(s, 1, i - 1)>> \o Splitlines(SubSeq(s, i + 1, Len(s)))

\* Python: fields[:n]
Take(fields, n) == SubSeq(fields, 1, IF Len(fields) < n THEN Len(fields) ELSE n)

(* ----------------------------- literals -------------------------------- *)
s_pip == <<"p", "i", "p">>
s_python_eq == <<"p", "y", "t", "h", "o", "n", "=">>
s_python == <<"p", "y", "t", "h", "o", "n">>
s_base == "base"

(* ------------------------- YAML document model ------------------------- *)
StrDep(s) == [type |-> "str", str |-> s, key |-> <<>>, items |-> <<>>]
DictDep(k, v) == [type |-> "dict", str |-> <<>>, key |-> k, items |-> v]
Doc(deps) == [dependencies |-> deps]
NoDoc == Doc(<<>>)

(* ------------------------- pure functions ------------------------------ *)

\* line 19: the test guarding a plain string entry
KeepPlainDep(dep) == ~Contains(dep, s_pip) /\ ~Contains(dep, s_python_eq)

\* line 23: [pkg.split('=')[0] for pkg in dep['pip']]
PipNames(items) == [j \in 1..Len(items) |-> Split(items[j], EQ)[1]]

\* lines 16-25: the loop over env['dependencies']
RECURSIVE ParseLoop(_, _, _)
ParseLoop(deps, i, conda_packages) ==
    IF i > Len(deps) THEN conda_packages
    ELSE LET dep == deps[i] IN
         IF dep.type = "str"
         THEN IF KeepPlainDep(dep.str)
              THEN ParseLoop(deps, i + 1, Append(conda_packages, Split(dep.str, EQ)[1]))
              ELSE ParseLoop(deps, i + 1, conda_packages)
         ELSE IF dep.type = "dict" /\ dep.key = s_pip
              THEN ParseLoop(deps, i + 1, conda_packages \o PipNames(dep.items))
              ELSE ParseLoop(deps, i + 1, conda_packages)

parse_environment_yml(contents) == ParseLoop(contents.dependencies, 1, <<>>)

\* line 42: if '=' in line
KeepLine(line) == Contains(line, <<EQ>>)

\* line 44: '='.join(line.split('=')[:2])
PackageVersion_NameOnly(line) == Join(Take(Split(line, EQ), 1), EQ)
PackageVersion(line) == Join(Take(Split(line, EQ), 2), EQ)

\* lines 40-46: the loop over result.stdout.splitlines()
RECURSIVE CondaListLoop(_, _, _)
CondaListLoop(lines, i, conda_list) ==
    IF i > Len(lines) THEN conda_list
    ELSE IF KeepLine(lines[i])
         THEN CondaListLoop(lines, i + 1, Append(conda_list, PackageVersion(lines[i])))
         ELSE CondaListLoop(lines, i + 1, conda_list)

ParseCondaList(stdout) == CondaListLoop(Splitlines(stdout), 1, <<>>)

\* dict comprehension, one item: d[k] = v (a later key overwrites)
DictPut_SetDefault(d, k, v) ==
    [x \in DOMAIN d \cup {k} |-> IF x \in DOMAIN d THEN d[x] ELSE v]
DictPut(d, k, v) ==
    [x \in DOMAIN d \cup {k} |-> IF x = k THEN v ELSE d[x]]

EmptyDict == [x \in {} |-> <<>>]

\* line 55: {pkg.split('=')[0]: pkg for pkg in conda_list if '=' in pkg}
RECURSIVE CondaDictLoop(_, _, _)
CondaDictLoop(lst, i, d) ==
    IF i > Len(lst) THEN d
    ELSE IF Contains(lst[i], <<EQ>>)
         THEN CondaDictLoop(lst, i + 1, DictPut(d, Split(lst[i], EQ)[1], lst[i]))
         ELSE CondaDictLoop(lst, i + 1, d)

CondaDict(lst) == CondaDictLoop(lst, 1, EmptyDict)

\* line 56, one element: conda_dict[pkg] ... if pkg in conda_dict
FilterEntry_GetDefault(conda_dict, pkg) ==
    IF pkg \in DOMAIN conda_dict THEN <<conda_dict[pkg]>> ELSE <<pkg>>
FilterEntry(conda_dict, pkg) ==
    IF pkg \in DOMAIN conda_dict THEN <<conda_dict[pkg]>> ELSE <<>>

\* line 56: [conda_dict[pkg] for pkg in history_packages if pkg in conda_dict]
RECURSIVE FilterLoop(_, _, _, _)
FilterLoop(conda_dict, hist, i, filtered) ==
    IF i > Len(hist) THEN filtered
    ELSE FilterLoop(conda_dict, hist, i + 1, filtered \o FilterEntry(conda_dict, hist[i]))

\* the filter walking conda_list instead of history_packages
filter_conda_list_ListOrder(hist, lst) ==
    SelectSeq(lst, LAMBDA e : Contains(e, <<EQ>>) /\ Split(e, EQ)[1] \in Range(hist)
                              /\ CondaDict(lst)[Split(e, EQ)[1]] = e)
filter_conda_list_with_history(hist, lst) ==
    FilterLoop(CondaDict(lst), hist, 1, <<>>)

\* line 63: open(output_file, 'w') truncates the file
OpenAppend(old) == old
OpenWrite(old) == <<>>

\* lines 64-65: file.write(package + '\n') for each package
RECURSIVE WriteLoop(_, _, _)
WriteLoop(pkgs, i, file) ==
    IF i > Len(pkgs) THEN file
    ELSE WriteLoop(pkgs, i + 1, file \o pkgs[i] \o <<NL>>)

write_requirements_txt(pkgs, old) == WriteLoop(pkgs, 1, OpenWrite(old))

(* --------------------------- input pools ------------------------------- *)
Unset == "<unset>"
EnvNames == {Unset, s_base, "myenv"}

s_a == <<"a">>
s_b1 == <<"b", "=", "1">>
s_c1 == <<"c", "=", "1">>

\* dependency entries of the documents the pipeline runs on
PipeDeps == {StrDep(s_a), StrDep(s_b1), DictDep(s_pip, <<s_c1, s_a>>)}
PipeDocs == {Doc(d) : d \in SeqsUpTo(PipeDeps, MaxDeps)}

\* dependency entries for the extractor on its own
RichDeps ==
    PipeDeps \cup
    { StrDep(s_pip), StrDep(s_pip \o <<"=", "2">>), StrDep(s_pip \o <<"x">>),
      StrDep(s_python_eq \o <<"3">>), StrDep(<<"i">> \o s_python_eq \o <<"8">>),
      StrDep(s_python), DictDep(s_pip, <<>>), DictDep(<<"x">>, <<s_a>>) }
RichDocs == {Doc(d) : d \in SeqsUpTo(RichDeps, MaxDeps)}

\* lines printed by `conda list --export`
PipeLines == { <<"a", "=", "1", "=", "h">>, <<"a", "=", "2">>,
               <<"b", "=", "2">>, <<"#", "x">> }
RichLines ==
    PipeLines \cup
    { <<>>, <<"=">>, <<"a", "=">>, <<"a", "=", "=", "h">>,
      <<"a", "=", "1", "=", "h", "=", "x">> }

\* the text of a list of lines, each newline-terminated
RECURSIVE Text(_)
Text(lines) == IF Len(lines) = 0 THEN <<>> ELSE Head(lines) \o <<NL>> \o Text(Tail(lines))

\* what an external process can deliver: (returncode, stdout)
ExportOutcomes == {[rc |-> 0, stdout |-> d] : d \in PipeDocs} \cup {[rc |-> 1, stdout |-> NoDoc]}
ListOutcomesOf(pool) ==
    {[rc |-> 0, stdout |-> Text(l)] : l \in SeqsUpTo(pool, MaxLines)} \cup {[rc |-> 1, stdout |-> <<>>]}
NoExport == [rc |-> -1, stdout |-> NoDoc]
NoList == [rc |-> -1, stdout |-> <<>>]

NoFile == [given |-> FALSE, text |-> NoDoc]
YmlFiles == {NoFile} \cup {[given |-> TRUE, text |-> d] : d \in PipeDocs}

OutFiles == {<<>>, <<"o", "l", "d">>}

(* ------------------------------- state --------------------------------- *)
VARIABLES
    pc,                \* position of main()
    yml_file,          \* the YML_FILE argument and the text of that file
    CONDA_DEFAULT_ENV, \* the process environment variable
    outfile,           \* contents of the file at the --output path
    exportProc,        \* outcome of `conda env export --from-history`
    listProc,          \* outcome of `conda list --export`
    running,           \* external processes started and not yet returned
    yml_contents, history_packages, conda_list, conda_packages,  \* locals of main
    exitCode,          \* -1 while the run is going, then the exit status
    log,               \* the steps this run has taken, in order
    runs,              \* number of the current run
    fileBefore         \* contents of the output file when this run started

vars == <<pc, yml_file, CONDA_DEFAULT_ENV, outfile, exportProc, listProc, running,
          yml_contents, history_packages, conda_list, conda_packages,
          exitCode, log, runs, fileBefore>>

locals == <<yml_contents, history_packages, conda_list, conda_packages>>
inputs == <<yml_file, CONDA_DEFAULT_ENV>>
procs == <<exportProc, listProc, running>>

Init ==
    /\ pc = "main"
    /\ yml_file \in YmlFiles
    /\ CONDA_DEFAULT_ENV \in EnvNames
    /\ outfile \in OutFiles
    /\ exportProc = NoExport
    /\ listProc = NoList
    /\ running = {}
    /\ yml_contents = NoDoc
    /\ history_packages = <<>>
    /\ conda_list = <<>>
    /\ conda_packages = <<>>
    /\ exitCode = -1
    /\ log = <<>>
    /\ runs = 1
    /\ fileBefore = outfile

(* ------------------------------ actions -------------------------------- *)

\* sys.exit(1)
Exit1 == pc' = "exit" /\ exitCode' = 1

\* main, lines 125-128 with get_active_conda_env, lines 72-76
get_active_conda_env ==
    /\ pc = "main"
    /\ ~yml_file.given
    /\ log' = Append(log, "get_active_conda_env")
    /\ IF CONDA_DEFAULT_ENV = s_base
       THEN Exit1
       ELSE pc' = "export_call" /\ exitCode' = exitCode
    /\ UNCHANGED <<inputs, outfile, procs, locals, runs, fileBefore>>

\* the export started without waiting for it (Popen instead of run)
export_conda_env_call_NoWait ==
    /\ pc = "export_call"
    /\ \E res \in ExportOutcomes :
          /\ runs = 1 \/ res = exportProc
          /\ exportProc' = res
    /\ running' = running \cup {"export"}
    /\ pc' = "parse"
    /\ log' = Append(log, "export_call")
    /\ UNCHANGED <<inputs, outfile, listProc, locals, exitCode, runs, fileBefore>>

\* export_conda_env, lines 83-89: subprocess.run starts the process and blocks
export_conda_env_call ==
    /\ pc = "export_call"
    /\ \E res \in ExportOutcomes :
          /\ runs = 1 \/ res = exportProc
          /\ exportProc' = res
    /\ running' = running \cup {"export"}
    /\ pc' = "export_wait"
    /\ log' = Append(log, "export_call")
    /\ UNCHANGED <<inputs, outfile, listProc, locals, exitCode, runs, fileBefore>>

\* export_conda_env, lines 90-93, and the assignment of main line 131
export_conda_env_return ==
    /\ pc = "export_wait"
    /\ running' = running \ {"export"}
    /\ log' = Append(log, "export_return")
    /\ IF exportProc.rc = 0
       THEN /\ yml_contents' = exportProc.stdout
            /\ pc' = "parse"
            /\ exitCode' = exitCode
       ELSE /\ Exit1
            /\ yml_contents' = yml_contents
    /\ UNCHANGED <<inputs, outfile, exportProc, listProc, history_packages,
                   conda_list, conda_packages, runs, fileBefore>>

\* main, lines 132-135
main_read_yml_file ==
    /\ pc = "main"
    /\ yml_file.given
    /\ yml_contents' = yml_file.text
    /\ pc' = "parse"
    /\ log' = Append(log, "read_file")
    /\ UNCHANGED <<inputs, outfile, procs, history_packages, conda_list,
                   conda_packages, exitCode, runs, fileBefore>>

\* main, line 138
main_parse ==
    /\ pc = "parse"
    /\ history_packages' = parse_environment_yml(yml_contents)
    /\ pc' = "list_call"
    /\ log' = Append(log, "parse")
    /\ UNCHANGED <<inputs, outfile, procs, yml_contents, conda_list,
                   conda_packages, exitCode, runs, fileBefore>>

\* the output file opened for writing before conda list is run
get_conda_list_versions_call_FileOpened ==
    /\ pc = "list_call"
    /\ \E res \in ListOutcomesOf(PipeLines) :
          /\ runs = 1 \/ res = listProc
          /\ listProc' = res
    /\ running' = running \cup {"list"}
    /\ pc' = "list_wait"
    /\ log' = Append(log, "list_call")
    /\ outfile' = OpenWrite(outfile)
    /\ UNCHANGED <<inputs, exportProc, locals, exitCode, runs, fileBefore>>

\* get_conda_list_versions, lines 33-39
get_conda_list_versions_call ==
    /\ pc = "list_call"
    /\ \E res \in ListOutcomesOf(PipeLines) :
          /\ runs = 1 \/ res = listProc
          /\ listProc' = res
    /\ running' = running \cup {"list"}
    /\ pc' = "list_wait"
    /\ log' = Append(log, "list_call")
    /\ UNCHANGED <<inputs, outfile, exportProc, locals, exitCode, runs, fileBefore>>

\* the CalledProcessError logged and swallowed: an empty list is returned
get_conda_list_versions_return_NoExit ==
    /\ pc = "list_wait"
    /\ running' = running \ {"list"}
    /\ log' = Append(log, "list_return")
    /\ conda_list' = IF listProc.rc = 0 THEN ParseCondaList(listProc.stdout) ELSE <<>>
    /\ pc' = "filter"
    /\ exitCode' = exitCode
    /\ UNCHANGED <<inputs, outfile, exportProc, listProc, yml_contents,
                   history_packages, conda_packages, runs, fileBefore>>

\* get_conda_list_versions, lines 40-49, and the assignment of main line 141
get_conda_list_versions_return ==
    /\ pc = "list_wait"
    /\ running' = running \ {"list"}
    /\ log' = Append(log, "list_return")
    /\ IF listProc.rc = 0
       THEN /\ conda_list' = ParseCondaList(listProc.stdout)
            /\ pc' = "filter"
            /\ exitCode' = exitCode
       ELSE /\ Exit1
            /\ conda_list' = conda_list
    /\ UNCHANGED <<inputs, outfile, exportProc, listProc, yml_contents,
                   history_packages, conda_packages, runs, fileBefore>>

\* main, line 144
main_filter ==
    /\ pc = "filter"
    /\ conda_packages' = filter_conda_list_with_history(history_packages, conda_list)
    /\ pc' = "write"
    /\ log' = Append(log, "filter")
    /\ UNCHANGED <<inputs, outfile, procs, yml_contents, history_packages,
                   conda_list, exitCode, runs, fileBefore>>

\* main, line 147, then the normal return of main (exit status 0)
main_write ==
    /\ pc = "write"
    /\ outfile' = write_requirements_txt(conda_packages, outfile)
    /\ pc' = "done"
    /\ exitCode' = 0
    /\ log' = Append(log, "write")
    /\ UNCHANGED <<inputs, procs, locals, runs, fileBefore>>

\* the tool is invoked again with the same arguments, environment and files
Rerun ==
    /\ pc \in {"done", "exit"}
    /\ runs < MaxRuns
    /\ runs' = runs + 1
    /\ pc' = "main"
    /\ exitCode' = -1
    /\ log' = <<>>
    /\ yml_contents' = NoDoc
    /\ history_packages' = <<>>
    /\ conda_list' = <<>>
    /\ conda_packages' = <<>>
    /\ fileBefore' = outfile
    /\ UNCHANGED <<inputs, outfile, procs>>

Next ==
    \/ get_active_conda_env
    \/ export_conda_env_call
    \/ export_conda_env_return
    \/ main_read_yml_file
    \/ main_parse
    \/ get_conda_list_versions_call
    \/ get_conda_list_versions_return
    \/ main_filter
    \/ main_write
    \/ Rerun

Spec == Init /\ [][Next]_vars

(* ------------- the extractor and the list parser on their own ---------- *)

\* main about to call parse_environment_yml on the text of a given file
InitParse ==
    /\ pc = "parse"
    /\ yml_file \in {[given |-> TRUE, text |-> d] : d \in RichDocs}
    /\ yml_contents = yml_file.text
    /\ CONDA_DEFAULT_ENV \in EnvNames
    /\ outfile = <<>>
    /\ exportProc = NoExport
    /\ listProc = NoList
    /\ running = {}
    /\ history_packages = <<>>
    /\ conda_list = <<>>
    /\ conda_packages = <<>>
    /\ exitCode = -1
    /\ log = <<"read_file">>
    /\ runs = 1
    /\ fileBefore = outfile

SpecParse == InitParse /\ [][main_parse]_vars

\* get_conda_list_versions blocked in subprocess.run, conda list about to return
InitList ==
    /\ pc = "list_wait"
    /\ yml_file = [given |-> TRUE, text |-> NoDoc]
    /\ yml_contents = NoDoc
    /\ CONDA_DEFAULT_ENV \in EnvNames
    /\ outfile = <<>>
    /\ exportProc = NoExport
    /\ listProc \in ListOutcomesOf(RichLines)
    /\ running = {"list"}
    /\ history_packages = <<>>
    /\ conda_list = <<>>
    /\ conda_packages = <<>>
    /\ exitCode = -1
    /\ log = <<"read_file", "parse", "list_call">>
    /\ runs = 1
    /\ fileBefore = outfile

SpecList == InitList /\ [][get_conda_list_versions_return]_vars

(* ------------------------ helpers of the properties -------------------- *)
Min(S) == CHOOSE x \in S : \A y \in S : x <= y
Max(S) == CHOOSE x \in S : \A y \in S : y <= x

\* positions of character c in s
Positions(s, c) == {i \in 1..Len(s) : s[i] = c}

\* the text before the first '=' of s (all of s when it has none)
NameOf(s) ==
    IF Positions(s, EQ) = {} THEN s ELSE SubSeq(s, 1, Min(Positions(s, EQ)) - 1)

\* the text before the second '=' of s (all of s when it has fewer than two)
UpToSecondEq(s) ==
    LET P == Positions(s, EQ) IN
    IF Cardinality(P) < 2 THEN s ELSE SubSeq(s, 1, Min(P \ {Min(P)}) - 1)

\* number of members of S that are at most i
Rank(S, i) == Cardinality({j \in S : j <= i})

IsPrefix(s, t) == Len(s) <= Len(t) /\ s = SubSeq(t, 1, Len(s))

\* names that have an entry in the installed-package list
Keys(lst) == {NameOf(lst[i]) : i \in {j \in 1..Len(lst) : EQ \in Range(lst[j])}}

\* indices of the entries of lst named n
EntriesOf(lst, n) == {i \in 1..Len(lst) : EQ \in Range(lst[i]) /\ NameOf(lst[i]) = n}

Finished == pc = "done"
Filtered == pc \in {"write", "done"}

\* the output file is exactly the given entries, one per line, each newline-terminated
FileHoldsExactly(file, entries) ==
    /\ Splitlines(file) = entries
    /\ Cardinality(Positions(file, NL)) = Len(entries)
    /\ Len(file) > 0 => file[Len(file)] = NL

(* ------------------------------ properties ----------------------------- *)

\* C1: every line written by a successful run has a name (the text before
\* its first '=') that is both an extracted name and a key of the lookup
\* mapping; an extracted name that is not a key gives no line and no error.
C1_WrittenNamesAreKnown ==
    Finished =>
        LET lines == Splitlines(outfile)
            keys == Keys(conda_list)
        IN /\ \A i \in 1..Len(lines) :
                  NameOf(lines[i]) \in Range(history_packages) \cap keys
           /\ Len(lines) = Cardinality({i \in 1..Len(history_packages) : history_packages[i] \in keys})
           /\ exitCode = 0

C1_Witness ==
    /\ Finished
    /\ Range(history_packages) \ Keys(conda_list) # {}
    /\ Range(history_packages) \cap Keys(conda_list) # {}
    /\ Len(outfile) > 0

\* C2: the filter's result is the walk of history_packages in order, with
\* one mapped 'name=version' entry per occurrence of a name that is a key of
\* the lookup mapping: extractor order, not sorted, no de-duplication.
C2_FilterFollowsHistory ==
    Filtered =>
        LET d == CondaDict(conda_list)
            Idx == {i \in 1..Len(history_packages) : history_packages[i] \in DOMAIN d}
        IN /\ Len(conda_packages) = Cardinality(Idx)
           /\ \A i \in Idx : conda_packages[Rank(Idx, i)] = d[history_packages[i]]

C2_Witness ==
    /\ Filtered
    /\ \E i, j \in 1..Len(history_packages) :
          /\ i < j
          /\ history_packages[i] = history_packages[j]
          /\ history_packages[i] \in Keys(conda_list)
    /\ \E i, j \in 1..Len(conda_packages) :
          /\ i < j
          /\ Min(EntriesOf(conda_list, NameOf(conda_packages[i])))
                > Max(EntriesOf(conda_list, NameOf(conda_packages[j])))

\* C3 (as claimed): with no YML_FILE the export is invoked only when the
\* variable names an environment other than 'base'; when it is unset or
\* 'base' the run exits with 1 before export, list or write is started.
C3_ExportNeedsNamedEnv ==
    ~yml_file.given =>
        /\ "export_call" \in Range(log) => CONDA_DEFAULT_ENV \notin {Unset, s_base}
        /\ (CONDA_DEFAULT_ENV \in {Unset, s_base} /\ pc # "main") =>
              /\ pc = "exit"
              /\ exitCode = 1
              /\ Range(log) \cap {"export_call", "list_call", "write"} = {}

IsPipMarker(s) == NameOf(s) = s_pip
\* a plain entry that is a Python-version pin: 'python=<version>'
IsPythonPin(s) == NameOf(s) = s_python /\ EQ \in Range(s)

\* the names the extractor is to return for a dependencies list
RECURSIVE ExpectedNames(_)
ExpectedNames(deps) ==
    IF Len(deps) = 0 THEN <<>>
    ELSE LET dep == Head(deps)
             here == IF dep.type = "str"
                     THEN IF IsPipMarker(dep.str) \/ IsPythonPin(dep.str)
                          THEN <<>>
                          ELSE <<NameOf(dep.str)>>
                     ELSE IF dep.key = s_pip
                          THEN [j \in 1..Len(dep.items) |-> NameOf(dep.items[j])]
                          ELSE <<>>
         IN here \o ExpectedNames(Tail(deps))

\* C5 (as claimed): parse_environment_yml returns, in encounter order, the
\* name of every plain entry that is neither the pip marker nor a Python
\* pin, and the names of the elements of every pip mapping; entries such as
\* 'pipx' or 'ipython=8' are kept.
C5_ExtractorKeepsLookalikes ==
    pc = "list_call" =>
        history_packages = ExpectedNames(yml_contents.dependencies)

\* C6: get_conda_list_versions returns, in line order, one entry per output
\* line containing '=', equal to the line up to (not including) its second
\* '=', and nothing for a line without '='.
C6_ListKeepsNameAndVersion ==
    (pc = "filter" /\ listProc.rc = 0) =>
        LET lines == Splitlines(listProc.stdout)
            Idx == {i \in 1..Len(lines) : EQ \in Range(lines[i])}
        IN /\ Len(conda_list) = Cardinality(Idx)
           /\ \A i \in Idx : conda_list[Rank(Idx, i)] = UpToSecondEq(lines[i])

C6_Witness ==
    /\ pc = "filter"
    /\ LET lines == Splitlines(listProc.stdout)
       IN /\ \E i \in 1..Len(lines) : EQ \notin Range(lines[i])
          /\ \E i \in 1..Len(lines) : Cardinality(Positions(lines[i], EQ)) >= 2

\* C7: when an external invocation exits non-zero the run ends there with
\* exit code 1: the invocation was made once, nothing follows it, and the
\* run is never in a state with exit code 0.
C7_ExternalFailureIsFatal ==
    /\ ("export_return" \in Range(log) /\ exportProc.rc # 0) =>
          /\ pc = "exit"
          /\ exitCode = 1
          /\ log[Len(log)] = "export_return"
          /\ Cardinality(Positions(log, "export_call")) = 1
    /\ ("list_return" \in Range(log) /\ listProc.rc # 0) =>
          /\ pc = "exit"
          /\ exitCode = 1
          /\ log[Len(log)] = "list_return"
          /\ Cardinality(Positions(log, "list_call")) = 1

C7_Witness ==
    /\ pc = "exit"
    /\ "export_return" \in Range(log)
    /\ "list_return" \in Range(log)
    /\ listProc.rc # 0

\* the steps of a run of main, in order
StagesOf(given) ==
    IF given
    THEN <<"read_file", "parse", "list_call", "list_return", "filter", "write">>
    ELSE <<"get_active_conda_env", "export_call", "export_return",
           "parse", "list_call", "list_return", "filter", "write">>

\* C8: the stages of a run happen in the fixed order, each at most once and
\* each after the previous one completed; the two external operations never
\* overlap, the list is never started before the export returned, and with
\* a YML_FILE the export is never invoked.
C8_StagesInOrder ==
    /\ IsPrefix(log, StagesOf(yml_file.given))
    /\ Cardinality(running) <= 1
    /\ "export" \in running <=> (Len(log) > 0 /\ log[Len(log)] = "export_call")
    /\ "list" \in running <=> (Len(log) > 0 /\ log[Len(log)] = "list_call")
    /\ yml_file.given => "export_call" \notin Range(log)

C8_Witness ==
    /\ Finished
    /\ ~yml_file.given
    /\ "export_return" \in Range(log)

\* C9: after a successful run the output file is exactly the filtered
\* entries, one per line and newline-terminated, whatever it held before;
\* a second run on the same inputs leaves the same file.
C9_RunIsIdempotent ==
    Finished =>
        /\ FileHoldsExactly(outfile, conda_packages)
        /\ runs >= 2 => outfile = fileBefore

C9_Witness ==
    /\ Finished
    /\ runs = 2
    /\ Len(conda_packages) >= 2

\* C10: a run that ends in a fatal exit leaves the output file as it was
\* when the run started and never reaches the write.
C10_FatalExitLeavesFile ==
    pc = "exit" =>
        /\ exitCode = 1
        /\ outfile = fileBefore
        /\ "write" \notin Range(log)

C10_Witness ==
    /\ pc = "exit"
    /\ "list_return" \in Range(log)
    /\ Len(fileBefore) > 0

=============================================================================
